---- MODULE Spec2Model ----
(***************************************************************************)
(* URL shortener: the resolution engine (UrlService), the record store     *)
(* (Url model over the urls table), the Redis cache in front of it and the *)
(* expiration sweeper.  Every await of the service code is a separate      *)
(* step, so request handlers, the sweeper and the clock interleave.        *)
(***************************************************************************)
EXTENDS Integers, Sequences, FiniteSets, TLC

\* ---------------------------------------------------------------- bounds
MaxTime == 2        \* the clock runs 0..MaxTime
MaxOps == 2         \* number of requests (shorten / resolve / stats) started
MaxCodeLen == 8     \* the longest code length asked of the content-derived generator

\* ------------------------------------------------------ program constants
DefaultTtl == 1         \* EX: expiresIn || 3600, in clock units
RetentionWindow == 1    \* olderThan = "30 days", in clock units
CodeLength == 7         \* generateSecureShortCode = (length = 7)

Procs == 1..2           \* request handlers running at a time

NoTime == -1            \* SQL NULL in a timestamp column / null Date
NoStr == <<>>           \* null / undefined / "" string

\* ------------------------------------------------------------- characters
UpperCase == <<"A","B","C","D","E","F","G","H","I","J","K","L","M",
               "N","O","P","Q","R","S","T","U","V","W","X","Y","Z">>
LowerCase == <<"a","b","c","d","e","f","g","h","i","j","k","l","m",
               "n","o","p","q","r","s","t","u","v","w","x","y","z">>
Digits == <<"0","1","2","3","4","5","6","7","8","9">>

Range(s) == {s[i] : i \in 1..Len(s)}

toLowerCase(ch) ==
  IF \E i \in 1..26 : UpperCase[i] = ch
  THEN LowerCase[CHOOSE i \in 1..26 : UpperCase[i] = ch]
  ELSE ch

lowerStr(s) == [i \in 1..Len(s) |-> toLowerCase(s[i])]

\* s.includes(pat) / pattern.test(s) for a literal pattern
Contains(s, pat) ==
  \E i \in 0..(Len(s) - Len(pat)) : SubSeq(s, i + 1, i + Len(pat)) = pat

StartsWith(s, pre) == Len(s) >= Len(pre) /\ SubSeq(s, 1, Len(pre)) = pre

\* ------------------------------------------------------------ urlValidator
Https == <<"h","t","t","p","s",":","/","/">>
Http == <<"h","t","t","p",":","/","/">>

RECURSIVE trimLeft(_)
trimLeft(s) == IF s # <<>> /\ Head(s) = " " THEN trimLeft(Tail(s)) ELSE s

RECURSIVE trimRight(_)
trimRight(s) ==
  IF s # <<>> /\ s[Len(s)] = " " THEN trimRight(SubSeq(s, 1, Len(s) - 1)) ELSE s

trim(s) == trimRight(trimLeft(s))

\* trim, prepend https:// if no scheme present
sanitizeUrl(s) ==
  LET t == trim(s)
  IN  IF StartsWith(t, Https) \/ StartsWith(t, Http) THEN t ELSE Https \o t

\* malformed: empty, or white space inside, or no host after the scheme
isValidUrl(s) ==
  LET t == sanitizeUrl(s)
  IN  /\ trim(s) # <<>>
      /\ " " \notin Range(t)
      /\ t # Https /\ t # Http

\* ------------------------------------------------------------- Url model
MaliciousPatterns ==
  { <<"p","h","i","s","h">>, <<"m","a","l","w","a","r","e">>,
    <<"h","a","c","k">>, <<"s","c","a","m">> }

isUrlMalicious(longUrl) ==
  \E pat \in MaliciousPatterns : Contains(lowerStr(longUrl), pat)

\* ------------------------------------------------------------ alias policy
AliasChars == Range(UpperCase) \cup Range(LowerCase) \cup Range(Digits) \cup {"_", "-"}

isValidAlias(alias) ==
  /\ Len(alias) >= 3 /\ Len(alias) <= 30
  /\ \A i \in 1..Len(alias) : alias[i] \in AliasChars

ReservedWords ==
  { <<"a","p","i">>, <<"a","d","m","i","n">>, <<"s","h","o","r","t","e","n">>,
    <<"s","t","a","t","s">>, <<"h","e","a","l","t","h">>, <<"l","o","g","i","n">>,
    <<"r","e","g","i","s","t","e","r">>, <<"d","a","s","h","b","o","a","r","d">>,
    <<"s","e","t","t","i","n","g","s">>, <<"h","e","l","p">>, <<"a","b","o","u","t">> }

isReservedAlias(alias) == lowerStr(alias) \in ReservedWords

\* ---------------------------------------------------------- code generator
Base64Alphabet == UpperCase \o LowerCase \o Digits \o <<"+", "/">>

\* the sextets of three bytes (a missing byte reads as 0)
ByteAt(bytes, i) == IF i <= Len(bytes) THEN bytes[i] ELSE 0

Sextet(bytes, k) ==
  LET g == (k - 1) \div 4
      b1 == ByteAt(bytes, 3 * g + 1)
      b2 == ByteAt(bytes, 3 * g + 2)
      b3 == ByteAt(bytes, 3 * g + 3)
      j == (k - 1) % 4
  IN  CASE j = 0 -> b1 \div 4
        [] j = 1 -> (b1 % 4) * 16 + b2 \div 16
        [] j = 2 -> (b2 % 16) * 4 + b3 \div 64
        [] OTHER -> b3 % 64

\* bytes.toString("base64"), padded with "="
toBase64(bytes) ==
  LET n == Len(bytes)
      groups == (n + 2) \div 3
      chars == (n * 8 + 5) \div 6
  IN  [k \in 1..(4 * groups) |->
         IF k <= chars THEN Base64Alphabet[Sextet(bytes, k) + 1] ELSE "="]

replaceChar(s, from, to) == [i \in 1..Len(s) |-> IF s[i] = from THEN to ELSE s[i]]

removeChar(s, ch) == SelectSeq(s, LAMBDA c : c # ch)

substring(s, n) == SubSeq(s, 1, IF n < Len(s) THEN n ELSE Len(s))

\* Math.ceil((length * 3) / 4)
RandomBytesLen(length) == (length * 3 + 3) \div 4

generateSecureShortCode(bytes, length) ==
  substring(removeChar(replaceChar(replaceChar(toBase64(bytes), "+", "-"), "/", "_"), "="),
            length)

\* the outcomes of crypto.randomBytes(6) the model draws from
FirstBytes == <<0, 16, 131, 16, 81, 135>>
RandomBytes == { FirstBytes, <<251, 255, 191, 105, 183, 29>> }

GenCodes == { generateSecureShortCode(b, CodeLength) : b \in RandomBytes }

\* shortCodeGenerator.js: the alphabet without 0/O and 1/l/I
SAFE_ALPHABET ==
  <<"2","3","4","5","6","7","8","9",
    "A","B","C","D","E","F","G","H","J","K","L","M","N","P","Q","R","S","T","U","V","W","X","Y","Z",
    "a","b","c","d","e","f","g","h","i","j","k","m","n","o","p","q","r","s","t","u","v","w","x","y","z">>

\* parseInt(md5(longUrl).substring(0, 10), 16), held as its digits in base
\* SAFE_ALPHABET.length, lowest first, so that value % base is the head,
\* Math.floor(value / base) the tail and value > 0 a non-empty sequence:
\* md5 of https://a.co starts 4423138d51, of http://b.co 625e0a3c63, of
\* https://a.co/17 018dd32fe7
Md5Prefix(longUrl) ==
  CASE longUrl = <<"h","t","t","p","s",":","/","/","a",".","c","o">>
         -> <<8, 44, 6, 12, 21, 30, 8>>
    [] longUrl = <<"h","t","t","p",":","/","/","b",".","c","o">>
         -> <<16, 2, 9, 9, 9, 18, 12>>
    [] longUrl = <<"h","t","t","p","s",":","/","/","a",".","c","o","/","1","7">>
         -> <<4, 7, 12, 16, 5, 11>>

\* while (shortCode.length < length && value > 0) { ... }
RECURSIVE ConvertLoop(_, _, _)
ConvertLoop(shortCode, value, length) ==
  IF Len(shortCode) < length /\ value # <<>>
  THEN ConvertLoop(<<SAFE_ALPHABET[Head(value) + 1]>> \o shortCode, Tail(value), length)
  ELSE shortCode

\* while (shortCode.length < length) { ... Math.random() ... }; random holds
\* the values of Math.floor(Math.random() * base), in the order drawn
RECURSIVE PadLoop(_, _, _)
PadLoop(shortCode, random, length) ==
  IF Len(shortCode) < length
  THEN PadLoop(<<SAFE_ALPHABET[Head(random) + 1]>> \o shortCode, Tail(random), length)
  ELSE shortCode

generateConsistentShortCode(longUrl, length, random) ==
  substring(PadLoop(ConvertLoop(<<>>, Md5Prefix(longUrl), length), random, length), length)

\* ----------------------------------------------------------------- inputs
\* the runs of Math.random() the model draws from (lowest and highest index)
RandomRuns == { [i \in 1..MaxCodeLen |-> 0],
                [i \in 1..MaxCodeLen |-> Len(SAFE_ALPHABET) - 1] }

UrlA == <<"a", ".", "c", "o">>
UrlB == <<" ", "h", "t", "t", "p", ":", "/", "/", "b", ".", "c", "o">>
UrlMalicious == <<"H", "a", "c", "k", ".", "c", "o">>
UrlMalformed == <<"a", " ", "b">>
RawUrls == {UrlA, UrlB, UrlMalicious, UrlMalformed}

AliasAbc == <<"a", "b", "c">>
AliasInputs == {NoStr, AliasAbc, <<"A", "p", "i">>, <<"a", "b", "!">>}

ExpiresInInputs == {0, 1}       \* 0: parseInt(expiresIn) || null

CacheKeys == {AliasAbc} \cup GenCodes
ResolveInputs == CacheKeys \cup {<<"a", "b">>, NoStr}

\* the well-formed inputs among them
GoodUrls == {UrlA, UrlB}
GoodAliases == {NoStr, AliasAbc}

\* inputs of the content-derived generator
UrlDeep == <<"h","t","t","p","s",":","/","/","a",".","c","o","/","1","7">>
DeriveUrls == {sanitizeUrl(UrlA), sanitizeUrl(UrlB), UrlDeep}
DeriveLengths == CodeLength..MaxCodeLen

\* ------------------------------------------------------------------ state
\* redisClient.isReady is not a variable: the connection comes and goes at
\* any time, so every test of it in the code reads an arbitrary boolean.
VARIABLES
  store,        \* the rows of table urls
  nextId,       \* the SERIAL sequence of urls.id
  cache,        \* Redis: key -> [url, exp], exp the time the key expires
  now,          \* the clock
  procs,        \* the request handlers: position and locals
  pending,      \* detached Url.incrementClicks calls of cache hits, per code
  sweep,        \* the cleanup job: position, codes left to evict, outcome
  issued,       \* history: <<url, code, isCustomAlias>> of the shortens that returned
  ops           \* requests started

vars == <<store, nextId, cache, now, procs, pending, sweep, issued, ops>>

NoEntry == [url |-> NoStr, exp |-> 0]

IdleProc ==
  [pc |-> "idle", op |-> "none", raw |-> NoStr, url |-> NoStr, alias |-> NoStr,
   expiresIn |-> 0, code |-> NoStr, expiresAt |-> NoTime, ttl |-> 0,
   status |-> "none", out |-> NoStr, stats |-> {}, length |-> 0,
   gRec |-> 0, gExpired |-> FALSE, gAns |-> NoStr, gHit |-> FALSE, gSeen |-> {},
   gNoCache |-> FALSE]

\* The g-fields are history kept for the properties, the code has no such
\* locals: gRec/gExpired the row of the code when resolve started and whether
\* it was expired, gAns the answer of the store path when the cache or the
\* store was read, gHit a cache hit, gSeen the codes handed out before this
\* shorten started (for its URL, or for its alias), gNoCache a cache
\* operation of this call was skipped (Redis not ready) or threw.

IdleSweep == [pc |-> "idle", todo |-> {}, status |-> "ok"]

Init ==
  /\ store = {}
  /\ nextId = 1
  /\ cache = [c \in CacheKeys |-> NoEntry]
  /\ now = 0
  /\ procs = [p \in Procs |-> IdleProc]
  /\ pending = [c \in CacheKeys |-> 0]
  /\ sweep = IdleSweep
  /\ issued = {}
  /\ ops = 0

\* ------------------------------------------------------------ record store
\* expires_at IS NULL OR expires_at > NOW()
NotExpiredSql(r) == r.expiresAt = NoTime \/ r.expiresAt > now

\* url.expires_at && new Date(url.expires_at) < new Date()
ExpiredJs(r) == r.expiresAt # NoTime /\ r.expiresAt < now

\* mutants of the constraint: no constraint; a partial index on active rows
UniqueViolationNone(shortCode) == FALSE

UniqueViolationActiveOnly(shortCode) == \E r \in store : r.shortCode = shortCode /\ r.isActive

\* short_code VARCHAR(30) UNIQUE
UniqueViolation(shortCode) == \E r \in store : r.shortCode = shortCode

\* mutant: the is_custom_alias option is not stored
NewRowFlagDropped(longUrl, shortCode, expiresAt, isCustomAlias) ==
  [id |-> nextId, longUrl |-> longUrl, shortCode |-> shortCode, clicks |-> 0,
   createdAt |-> now, expiresAt |-> expiresAt, isActive |-> TRUE,
   lastAccessed |-> NoTime, isCustomAlias |-> FALSE]

NewRow(longUrl, shortCode, expiresAt, isCustomAlias) ==
  [id |-> nextId, longUrl |-> longUrl, shortCode |-> shortCode, clicks |-> 0,
   createdAt |-> now, expiresAt |-> expiresAt, isActive |-> TRUE,
   lastAccessed |-> NoTime, isCustomAlias |-> isCustomAlias]

findByLongUrl(longUrl) ==
  {r \in store : r.longUrl = longUrl /\ NotExpiredSql(r) /\ r.isActive}

findByShortCode(shortCode) == {r \in store : r.shortCode = shortCode}

\* mutant: the counter moves without last_accessed
incrementClicksOnly(shortCode) ==
  { IF r.shortCode = shortCode /\ r.isActive /\ NotExpiredSql(r)
    THEN [r EXCEPT !.clicks = @ + 1]
    ELSE r : r \in store }

\* mutant: a counted access also clears the expiry
incrementClicksKeeps(shortCode) ==
  { IF r.shortCode = shortCode /\ r.isActive /\ NotExpiredSql(r)
    THEN [r EXCEPT !.clicks = @ + 1, !.lastAccessed = now, !.expiresAt = NoTime]
    ELSE r : r \in store }

\* UPDATE urls SET clicks = clicks + 1, last_accessed = CURRENT_TIMESTAMP
\* WHERE short_code = $1 AND is_active = true AND (expires_at IS NULL OR ...)
incrementClicks(shortCode) ==
  { IF r.shortCode = shortCode /\ r.isActive /\ NotExpiredSql(r)
    THEN [r EXCEPT !.clicks = @ + 1, !.lastAccessed = now]
    ELSE r : r \in store }

\* mutant: the statistics of active rows only
getStatsActiveOnly(shortCode) ==
  { [shortCode |-> r.shortCode, longUrl |-> r.longUrl, clicks |-> r.clicks,
     createdAt |-> r.createdAt, expiresAt |-> r.expiresAt,
     lastAccessed |-> r.lastAccessed, isCustomAlias |-> r.isCustomAlias] :
    r \in {x \in store : x.shortCode = shortCode /\ x.isActive} }

\* SELECT short_code, long_url, clicks, ... FROM urls WHERE short_code = $1
getStats(shortCode) ==
  { [shortCode |-> r.shortCode, longUrl |-> r.longUrl, clicks |-> r.clicks,
     createdAt |-> r.createdAt, expiresAt |-> r.expiresAt,
     lastAccessed |-> r.lastAccessed, isCustomAlias |-> r.isCustomAlias] :
    r \in {x \in store : x.shortCode = shortCode} }

\* mutant: a NULL expires_at compares as the oldest time
deactivateExpiredUrlsNullFirst == {r \in store : r.expiresAt < now /\ r.isActive}

\* the rows UPDATE ... WHERE expires_at < NOW() AND is_active = TRUE touches
deactivateExpiredUrls == {r \in store : r.expiresAt # NoTime /\ r.expiresAt < now /\ r.isActive}

\* the rows DELETE FROM urls WHERE ... removes
deleteExpiredUrls ==
  {r \in store :
     \/ r.expiresAt # NoTime /\ r.expiresAt < now - RetentionWindow
     \/ ~r.isActive /\ r.createdAt < now - RetentionWindow}

\* ---------------------------------------------------------------- helpers
\* the handler returns or throws; only its outcome is kept
Finish(pr, status, out) ==
  [IdleProc EXCEPT !.pc = "done", !.op = pr.op, !.raw = pr.raw, !.url = pr.url,
                   !.alias = pr.alias, !.expiresIn = pr.expiresIn, !.code = pr.code,
                   !.status = status, !.out = out,
                   !.stats = pr.stats,
                   !.gRec = pr.gRec, !.gExpired = pr.gExpired, !.gAns = pr.gAns,
                   !.gHit = pr.gHit, !.gSeen = pr.gSeen, !.gNoCache = pr.gNoCache]

Free(p) == procs[p].pc \in {"idle", "done"}

\* a request is taken by the first free handler (the handlers are alike)
CanStart(p) == Free(p) /\ (\A q \in Procs : q < p => ~Free(q)) /\ ops < MaxOps

\* redisClient.set(key, value, {EX: ttl})
CacheSet(key, value, ttl) == [cache EXCEPT ![key] = [url |-> value, exp |-> now + ttl]]

\* what resolve answers from the store alone
StoreAnswer(shortCode) ==
  IF \E r \in store : r.shortCode = shortCode /\ r.isActive /\ ~ExpiredJs(r)
  THEN (CHOOSE r \in store : r.shortCode = shortCode /\ r.isActive /\ ~ExpiredJs(r)).longUrl
  ELSE NoStr

\* the history of the codes shorten handed out
Issue(pr) == issued \cup {<<pr.url, pr.code, pr.alias # NoStr>>}

\* the codes handed out so far for a URL without alias / for an alias
SeenForUrl(url) == {i[2] : i \in {j \in issued : j[1] = url /\ ~j[3]}}
SeenForAlias(alias) == {i[2] : i \in {j \in issued : j[2] = alias /\ j[3]}}

\* ------------------------------------------------- UrlService.shortenUrl
\* lines 8-33 and 61: validation up to the first store call
ShortenStart(p, raw, expiresIn, customAlias) ==
  /\ CanStart(p)
  /\ LET sanitizedUrl == sanitizeUrl(raw)
         pr == [IdleProc EXCEPT !.op = "shorten", !.raw = raw, !.alias = customAlias,
                                !.expiresIn = expiresIn]
     IN  procs' = [procs EXCEPT ![p] =
           IF ~isValidUrl(raw) THEN Finish(pr, "InvalidUrl", NoStr)
           ELSE IF isUrlMalicious(sanitizedUrl) THEN Finish(pr, "MaliciousUrl", NoStr)
           ELSE IF customAlias # NoStr
           THEN IF ~isValidAlias(customAlias) THEN Finish(pr, "InvalidAlias", NoStr)
                ELSE IF isReservedAlias(customAlias) THEN Finish(pr, "ReservedAlias", NoStr)
                ELSE [pr EXCEPT !.pc = "s_findAlias", !.url = sanitizedUrl,
                                !.gSeen = SeenForAlias(customAlias)]
           ELSE [pr EXCEPT !.pc = "s_findUrl", !.url = sanitizedUrl,
                           !.gSeen = SeenForUrl(sanitizedUrl)]]
  /\ ops' = ops + 1
  /\ UNCHANGED <<store, nextId, cache, now, pending, sweep, issued>>

\* new Date() + expiresIn seconds, null without expiresIn
ExpiresAtOf(expiresIn) == IF expiresIn # 0 THEN now + expiresIn ELSE NoTime

\* lines 30-39: Url.findByShortCode(customAlias), then expiresAt
ShortenFindAlias(p) ==
  /\ procs[p].pc = "s_findAlias"
  /\ LET pr == procs[p]
     IN  procs' = [procs EXCEPT ![p] =
           IF findByShortCode(pr.alias) # {}
           THEN Finish(pr, "AliasTaken", NoStr)
           ELSE [pr EXCEPT !.pc = "s_create", !.code = pr.alias,
                           !.expiresAt = ExpiresAtOf(pr.expiresIn)]]
  /\ UNCHANGED <<store, nextId, cache, now, pending, sweep, issued, ops>>

\* mutant: a hit applies the expiresIn of the call to the row it returns
ShortenFindUrlHitExtend(p) ==
  /\ procs[p].pc = "s_findUrl"
  /\ \E existingUrl \in findByLongUrl(procs[p].url) :
       LET pr == [procs[p] EXCEPT !.code = existingUrl.shortCode]
       IN  /\ procs' = [procs EXCEPT ![p] = Finish(pr, "ok", pr.code)]
           /\ issued' = Issue(pr)
           /\ store' = (store \ {existingUrl}) \cup
                         {[existingUrl EXCEPT !.expiresAt = ExpiresAtOf(pr.expiresIn)]}
  /\ UNCHANGED <<nextId, cache, now, pending, sweep, ops>>

\* lines 61-64: Url.findByLongUrl: rows[0] of a query without ORDER BY
ShortenFindUrlHit(p) ==
  /\ procs[p].pc = "s_findUrl"
  /\ \E existingUrl \in findByLongUrl(procs[p].url) :
       LET pr == [procs[p] EXCEPT !.code = existingUrl.shortCode]
       IN  /\ procs' = [procs EXCEPT ![p] = Finish(pr, "ok", pr.code)]
           /\ issued' = Issue(pr)
  /\ UNCHANGED <<store, nextId, cache, now, pending, sweep, ops>>

\* lines 61-72: no row; generateSecureShortCode(), then expiresAt
ShortenFindUrlMiss(p) ==
  /\ procs[p].pc = "s_findUrl"
  /\ findByLongUrl(procs[p].url) = {}
  /\ \E bytes \in RandomBytes :
       procs' = [procs EXCEPT ![p] =
         [procs[p] EXCEPT !.pc = "s_create",
                          !.code = generateSecureShortCode(bytes, CodeLength),
                          !.expiresAt = ExpiresAtOf(procs[p].expiresIn)]]
  /\ UNCHANGED <<store, nextId, cache, now, pending, sweep, issued, ops>>

\* mutant: the constraint violation is rethrown as the driver reports it
CreateConflictRaw(pr) == Finish(pr, "StoreError", NoStr)

\* Url.create: if (error.code === "23505") throw new Error("alias already exists")
CreateConflict(pr) == Finish(pr, "AliasTaken", NoStr)

\* lines 41-45 / 74-78 with Url.create: the INSERT, 23505 -> "alias already
\* exists"; then if (redisClient.isReady) await redisClient.set(...)
ShortenCreate(p, ready) ==
  /\ procs[p].pc = "s_create"
  /\ LET pr == procs[p]
     IN  IF UniqueViolation(pr.code)
         THEN /\ procs' = [procs EXCEPT ![p] = CreateConflict(pr)]
              /\ UNCHANGED <<store, nextId, issued>>
         ELSE /\ store' = store \cup {NewRow(pr.url, pr.code, pr.expiresAt, pr.alias # NoStr)}
              /\ nextId' = nextId + 1
              /\ IF ready
                 THEN /\ procs' = [procs EXCEPT ![p] = [pr EXCEPT !.pc = "s_set"]]
                      /\ UNCHANGED issued
                 ELSE /\ procs' = [procs EXCEPT ![p] =
                           Finish([pr EXCEPT !.gNoCache = TRUE], "ok", pr.code)]
                      /\ issued' = Issue(pr)
  /\ UNCHANGED <<cache, now, pending, sweep, ops>>

\* mutant: the cache error of the write-through is taken for the insert's
ShortenCacheErrorConflict(pr) == Finish([pr EXCEPT !.gNoCache = TRUE], "AliasTaken", NoStr)

\* mutant: the cache error of the write-through reaches the caller
ShortenCacheErrorThrown(pr) == Finish([pr EXCEPT !.gNoCache = TRUE], "CacheError", NoStr)

\* catch (redisError) { console.error(...) } of shortenUrl
ShortenCacheError(pr) == Finish([pr EXCEPT !.gNoCache = TRUE], "ok", pr.code)

\* lines 47-58 / 80-90: the write-through, EX: expiresIn || 3600
ShortenCacheSet(p) ==
  /\ procs[p].pc = "s_set"
  /\ LET pr == procs[p]
     IN  \/ /\ cache' = CacheSet(pr.code, pr.url,
                                 IF pr.expiresIn # 0 THEN pr.expiresIn ELSE DefaultTtl)
            /\ procs' = [procs EXCEPT ![p] = Finish(pr, "ok", pr.code)]
            /\ issued' = Issue(pr)
         \/ /\ procs' = [procs EXCEPT ![p] = ShortenCacheError(pr)]
            /\ issued' = IF ShortenCacheError(pr).status = "ok" THEN Issue(pr) ELSE issued
            /\ UNCHANGED cache
  /\ UNCHANGED <<store, nextId, now, pending, sweep, ops>>

\* ------------------------------------------------- UrlService.getLongUrl
\* mutant: the shape check without the length
IsInvalidShortCodeNoLength(shortCode) == shortCode = NoStr

\* !shortCode || typeof shortCode !== "string" || shortCode.length < 3
IsInvalidShortCode(shortCode) == shortCode = NoStr \/ Len(shortCode) < 3

\* lines 119-130: shape check, then the cache if Redis is ready, else the store
ResolveStart(p, shortCode, ready) ==
  /\ CanStart(p)
  /\ LET rows == findByShortCode(shortCode)
         pr == [IdleProc EXCEPT !.op = "resolve", !.code = shortCode,
                  !.gRec = IF rows = {} THEN 0 ELSE (CHOOSE r \in rows : TRUE).id,
                  !.gExpired = \E r \in rows : ExpiredJs(r)]
     IN  procs' = [procs EXCEPT ![p] =
           IF IsInvalidShortCode(shortCode)
           THEN Finish(pr, "InvalidShortCode", NoStr)
           ELSE [pr EXCEPT !.pc = IF ready THEN "r_get" ELSE "r_find",
                           !.gNoCache = ~ready]]
  /\ ops' = ops + 1
  /\ UNCHANGED <<store, nextId, cache, now, pending, sweep, issued>>

\* catch (redisError) { console.error(...) } around redisClient.get
ResolveGetError(pr) == [pr EXCEPT !.pc = "r_find", !.gNoCache = TRUE]

\* mutant: the hit awaits Url.incrementClicks before it returns
ResolveHitAwaited(pr, cachedUrl) ==
  [pr EXCEPT !.pc = "r_incr", !.url = cachedUrl, !.gHit = TRUE, !.gAns = StoreAnswer(pr.code)]

\* lines 135-140: if (cachedUrl) { Url.incrementClicks(...).catch(...); return cachedUrl }
ResolveHit(pr, cachedUrl) ==
  Finish([pr EXCEPT !.gHit = TRUE, !.gAns = StoreAnswer(pr.code)], "ok", cachedUrl)

\* lines 127-140: the cache read; a hit returns and detaches incrementClicks
ResolveCacheGet(p) ==
  /\ procs[p].pc = "r_get"
  /\ LET pr == procs[p]
         cachedUrl == cache[pr.code].url
     IN  \/ /\ cachedUrl # NoStr
            /\ pending' = [pending EXCEPT ![pr.code] = @ + 1]
            /\ procs' = [procs EXCEPT ![p] = ResolveHit(pr, cachedUrl)]
         \/ /\ cachedUrl = NoStr
            /\ procs' = [procs EXCEPT ![p] = [pr EXCEPT !.pc = "r_find"]]
            /\ UNCHANGED pending
         \/ /\ procs' = [procs EXCEPT ![p] = ResolveGetError(pr)]
            /\ UNCHANGED pending
  /\ UNCHANGED <<store, nextId, cache, now, sweep, issued, ops>>

\* lines 159-161: remaining seconds to expires_at, or the default
ExpirySeconds(url) == IF url.expiresAt # NoTime THEN url.expiresAt - now ELSE DefaultTtl

\* mutant: the is_active test inverted
IsNotFoundInverted(rows) == rows = {} \/ \E url \in rows : ExpiredJs(url) \/ url.isActive

\* mutant: the expiry test left out
IsNotFoundNoExpiry(rows) == rows = {} \/ \E url \in rows : ~url.isActive

\* lines 144-154: the three NotFound conditions of the store path
IsNotFound(rows) == rows = {} \/ \E url \in rows : ExpiredJs(url) \/ ~url.isActive

\* lines 142-163: Url.findByShortCode and the checks on its row
ResolveFind(p, ready) ==
  /\ procs[p].pc = "r_find"
  /\ LET pr == procs[p]
         rows == findByShortCode(pr.code)
     IN  IF IsNotFound(rows)
         THEN procs' = [procs EXCEPT ![p] =
                Finish([pr EXCEPT !.gAns = StoreAnswer(pr.code), !.gNoCache = @ \/ ~ready],
                       "NotFound", NoStr)]
         ELSE \E url \in rows :
                procs' = [procs EXCEPT ![p] =
                  [pr EXCEPT !.url = url.longUrl,
                             !.gAns = StoreAnswer(pr.code),
                             !.gNoCache = @ \/ ~ready,
                             !.ttl = IF ready /\ ExpirySeconds(url) > 0
                                     THEN ExpirySeconds(url) ELSE 0,
                             !.pc = IF ready /\ ExpirySeconds(url) > 0
                                    THEN "r_set" ELSE "r_incr"]]
  /\ UNCHANGED <<store, nextId, cache, now, pending, sweep, issued, ops>>

\* catch (redisError) { console.error(...) } around redisClient.set
ResolveSetError(pr) == [pr EXCEPT !.pc = "r_incr", !.ttl = 0, !.gNoCache = TRUE]

\* lines 164-171: populate the cache
ResolveCacheSet(p) ==
  /\ procs[p].pc = "r_set"
  /\ LET pr == procs[p]
     IN  \/ /\ cache' = CacheSet(pr.code, pr.url, pr.ttl)
            /\ procs' = [procs EXCEPT ![p] = [pr EXCEPT !.pc = "r_incr", !.ttl = 0]]
         \/ /\ procs' = [procs EXCEPT ![p] = ResolveSetError(pr)]
            /\ UNCHANGED cache
  /\ UNCHANGED <<store, nextId, now, pending, sweep, issued, ops>>

\* lines 173-174: await Url.incrementClicks(shortCode); return url.long_url
ResolveIncrement(p) ==
  /\ procs[p].pc = "r_incr"
  /\ store' = incrementClicks(procs[p].code)
  /\ procs' = [procs EXCEPT ![p] = Finish(procs[p], "ok", procs[p].url)]
  /\ UNCHANGED <<nextId, cache, now, pending, sweep, issued, ops>>

\* line 136: the detached Url.incrementClicks of a cache hit runs
WriteBack(c) ==
  /\ pending[c] > 0
  /\ pending' = [pending EXCEPT ![c] = @ - 1]
  /\ store' = incrementClicks(c)
  /\ UNCHANGED <<nextId, cache, now, procs, sweep, issued, ops>>

\* line 137: the detached call is rejected (store error or store down); the
\* .catch logs the error
WriteBackFail(c) ==
  /\ pending[c] > 0
  /\ pending' = [pending EXCEPT ![c] = @ - 1]
  /\ UNCHANGED <<store, nextId, cache, now, procs, sweep, issued, ops>>

\* ------------------------------------------------ UrlService.getUrlStats
\* lines 183-185: the check of the argument
StatsStart(p, shortCode) ==
  /\ CanStart(p)
  /\ LET pr == [IdleProc EXCEPT !.op = "stats", !.code = shortCode]
     IN  procs' = [procs EXCEPT ![p] =
           IF shortCode = NoStr
           THEN Finish(pr, "InvalidShortCode", NoStr)
           ELSE [pr EXCEPT !.pc = "t_query"]]
  /\ ops' = ops + 1
  /\ UNCHANGED <<store, nextId, cache, now, pending, sweep, issued>>

\* line 187 with Url.getStats: rows[0] of the SELECT; the route answers 404
\* when there is none
StatsQuery(p) ==
  /\ procs[p].pc = "t_query"
  /\ LET pr == procs[p]
         rows == getStats(pr.code)
     IN  procs' = [procs EXCEPT ![p] =
           Finish([pr EXCEPT !.stats = rows],
                  IF rows = {} THEN "NotFound" ELSE "ok", NoStr)]
  /\ UNCHANGED <<store, nextId, cache, now, pending, sweep, issued, ops>>

\* --------------------------------------------- generateConsistentShortCode
\* one call of the content-derived generator with the arguments it was given
DeriveCall(p, random) ==
  /\ procs[p].pc = "d_call"
  /\ procs' = [procs EXCEPT ![p] =
       [@ EXCEPT !.pc = "done", !.status = "ok",
                 !.out = generateConsistentShortCode(procs[p].url, procs[p].length, random)]]
  /\ UNCHANGED <<store, nextId, cache, now, pending, sweep, issued, ops>>

\* ------------------------------------------ UrlService.cleanupExpiredUrls
\* lines 197-206: the UPDATE, then the evictions if Redis is ready
SweepStart(ready) ==
  /\ sweep.pc # "evict"
  /\ LET expiredUrls == deactivateExpiredUrls
         codes == {r.shortCode : r \in expiredUrls}
     IN  /\ store' = {IF r \in expiredUrls THEN [r EXCEPT !.isActive = FALSE] ELSE r : r \in store}
         /\ sweep' = IF ready /\ codes # {}
                     THEN [pc |-> "evict", todo |-> codes, status |-> "ok"]
                     ELSE [pc |-> "idle", todo |-> {}, status |-> "ok"]
  /\ UNCHANGED <<nextId, cache, now, procs, pending, issued, ops>>

\* line 206: return expiredUrls.length, of a sweep run in this state
SweepCount == Cardinality(deactivateExpiredUrls)

\* a rejected redisClient.del: catch (error) { ...; throw error }
SweepDelError(sw) == [sw EXCEPT !.pc = "idle", !.todo = {}, !.status = "error"]

\* lines 201-203: await redisClient.del(url.short_code), one key per step
SweepEvict ==
  /\ sweep.pc = "evict"
  /\ \E c \in sweep.todo :
       \/ /\ cache' = [cache EXCEPT ![c] = NoEntry]
          /\ sweep' = IF sweep.todo = {c}
                      THEN [sweep EXCEPT !.pc = "idle", !.todo = {}, !.status = "ok"]
                      ELSE [sweep EXCEPT !.todo = @ \ {c}]
       \/ /\ sweep' = SweepDelError(sweep)
          /\ UNCHANGED cache
  /\ UNCHANGED <<store, nextId, now, procs, pending, issued, ops>>

\* -------------------------------------------------- Url.deleteExpiredUrls
Purge ==
  /\ deleteExpiredUrls # {}
  /\ store' = store \ deleteExpiredUrls
  /\ UNCHANGED <<nextId, cache, now, procs, pending, sweep, issued, ops>>

\* ------------------------------------------------------------ environment
\* time passes; Redis drops the keys whose EX has run out
Tick(limit) ==
  /\ now < limit
  /\ now' = now + 1
  /\ cache' = [c \in CacheKeys |-> IF cache[c].exp <= now + 1 THEN NoEntry ELSE cache[c]]
  /\ UNCHANGED <<store, nextId, procs, pending, sweep, issued, ops>>

\* ---------------------------------------------------------- specification
Request(p, urls, aliases, codes) ==
  \/ \E raw \in urls, e \in ExpiresInInputs, a \in aliases : ShortenStart(p, raw, e, a)
  \/ ShortenFindAlias(p)
  \/ ShortenFindUrlHit(p)
  \/ ShortenFindUrlMiss(p)
  \/ \E ready \in BOOLEAN : ShortenCreate(p, ready)
  \/ ShortenCacheSet(p)
  \/ \E c \in codes, ready \in BOOLEAN : ResolveStart(p, c, ready)
  \/ ResolveCacheGet(p)
  \/ \E ready \in BOOLEAN : ResolveFind(p, ready)
  \/ ResolveCacheSet(p)
  \/ ResolveIncrement(p)
  \/ \E c \in codes : StatsStart(p, c)
  \/ StatsQuery(p)

Background ==
  \/ \E c \in CacheKeys : WriteBack(c)
  \/ \E c \in CacheKeys : WriteBackFail(c)
  \/ \E ready \in BOOLEAN : SweepStart(ready)
  \/ SweepEvict

\* requests with well-formed inputs, the cleanup job and the clock
Next ==
  \/ \E p \in Procs : Request(p, GoodUrls, GoodAliases, CacheKeys)
  \/ Background
  \/ Tick(MaxTime)

Spec == Init /\ [][Next]_vars

\* the same with the retention purge being run, over a clock that outlasts
\* the retention window
NextPurge ==
  \/ \E p \in Procs : Request(p, GoodUrls, GoodAliases, CacheKeys)
  \/ Background
  \/ Tick(MaxTime + RetentionWindow)
  \/ Purge

SpecPurge == Init /\ [][NextPurge]_vars

\* the same as Next with malformed, malicious and reserved inputs as well
NextInputs ==
  \/ \E p \in Procs : Request(p, RawUrls, AliasInputs, ResolveInputs)
  \/ Background
  \/ Tick(MaxTime)

SpecInputs == Init /\ [][NextInputs]_vars

\* the store stays available (no write-back is rejected) and every click
\* update that is due, awaited or detached, is eventually run
NextAvailable ==
  \/ \E p \in Procs : Request(p, GoodUrls, GoodAliases, CacheKeys)
  \/ \E c \in CacheKeys : WriteBack(c)
  \/ \E ready \in BOOLEAN : SweepStart(ready)
  \/ SweepEvict
  \/ Tick(MaxTime)

SpecFair ==
  /\ Init /\ [][NextAvailable]_vars
  /\ \A c \in CacheKeys : WF_vars(WriteBack(c))
  /\ \A p \in Procs : WF_vars(ResolveIncrement(p))

\* the program after one shorten of UrlA without alias or expiry has been
\* served while Redis was down
InitDedup ==
  /\ store = {[id |-> 1, longUrl |-> sanitizeUrl(UrlA),
                shortCode |-> generateSecureShortCode(FirstBytes, CodeLength),
                clicks |-> 0, createdAt |-> 0, expiresAt |-> NoTime, isActive |-> TRUE,
                lastAccessed |-> NoTime, isCustomAlias |-> FALSE]}
  /\ nextId = 2
  /\ cache = [c \in CacheKeys |-> NoEntry]
  /\ now = 0
  /\ procs = [p \in Procs |-> IdleProc]
  /\ pending = [c \in CacheKeys |-> 0]
  /\ sweep = IdleSweep
  /\ issued = {<<sanitizeUrl(UrlA), generateSecureShortCode(FirstBytes, CodeLength), FALSE>>}
  /\ ops = 0

SpecDedup == InitDedup /\ [][Next]_vars

\* the content-derived generator on its own: each caller holds a URL and a
\* length and calls it once
InitDerive ==
  /\ store = {}
  /\ nextId = 1
  /\ cache = [c \in CacheKeys |-> NoEntry]
  /\ now = 0
  /\ procs \in [Procs -> {[IdleProc EXCEPT !.pc = "d_call", !.op = "derive",
                                           !.url = u, !.length = n] :
                            u \in DeriveUrls, n \in DeriveLengths}]
  /\ pending = [c \in CacheKeys |-> 0]
  /\ sweep = IdleSweep
  /\ issued = {}
  /\ ops = 0

NextDerive == \E p \in Procs : \E random \in RandomRuns : DeriveCall(p, random)

SpecDerive == InitDerive /\ [][NextDerive]_vars

\* ================================================================ claims
Done(p, op) == procs[p].pc = "done" /\ procs[p].op = op

RowOf(shortCode) == {r \in store : r.shortCode = shortCode}

\* C1: a code returned by shorten without alias maps to a row holding the
\* normalized URL of the request, and a resolve of a code whose row existed
\* when it started, and is active and not expired, returns the row's URL,
\* from the cache or from the store.
C1_ShortenThenResolve ==
  \A p \in Procs :
    /\ Done(p, "shorten") /\ procs[p].alias = NoStr /\ procs[p].status = "ok"
         => \E r \in RowOf(procs[p].out) : r.longUrl = sanitizeUrl(procs[p].raw)
    /\ Done(p, "resolve") /\ procs[p].gRec # 0
         => \A r \in store :
              r.id = procs[p].gRec /\ r.isActive /\ ~ExpiredJs(r)
                => procs[p].status = "ok" /\ procs[p].out = r.longUrl

\* a resolve served from the cache returned the URL of a code that shorten
\* without alias handed out for a request whose URL needed normalizing
C1_Witness ==
  \E p \in Procs :
    /\ Done(p, "resolve") /\ procs[p].gHit /\ procs[p].status = "ok"
    /\ \E i \in issued : ~i[3] /\ i[2] = procs[p].code /\ i[1] = procs[p].out
    /\ \E r \in store : r.id = procs[p].gRec /\ r.isActive /\ ~ExpiredJs(r)
                        /\ r.longUrl = sanitizeUrl(UrlB)

\* C2 (as stated): once shorten succeeded with an alias, every shorten with
\* that alias started later fails with AliasTaken.
C2_AliasTakenForever ==
  \A p \in Procs :
    Done(p, "shorten") /\ procs[p].alias # NoStr /\ procs[p].gSeen # {}
      => procs[p].status = "AliasTaken"

\* C2 (amended): a shorten with an alias fails with AliasTaken at every store
\* step that finds a row with that short code, active or not; its insert
\* succeeds when no such row is in the store.
C2_AliasTakenWhileRowExists ==
  [][\A p \in Procs :
       LET pr == procs[p]
           nx == procs'[p]
       IN  pr.alias # NoStr /\ pr.pc \in {"s_findAlias", "s_create"} /\ nx # pr
             => /\ RowOf(pr.alias) # {} => nx.pc = "done" /\ nx.status = "AliasTaken"
                /\ RowOf(pr.alias) = {} /\ pr.pc = "s_findAlias" => nx.pc = "s_create"
                /\ RowOf(pr.alias) = {} /\ pr.pc = "s_create"
                     => /\ nx.status # "AliasTaken"
                        /\ \E r \in store' : r.shortCode = pr.alias /\ r.isCustomAlias
                                             /\ r.longUrl = pr.url]_vars

\* a shorten with an alias handed out before failed with AliasTaken against
\* a row the sweep had deactivated
C2_Witness ==
  \E p \in Procs :
    /\ Done(p, "shorten") /\ procs[p].alias # NoStr /\ procs[p].gSeen # {}
    /\ procs[p].status = "AliasTaken"
    /\ \E r \in RowOf(procs[p].alias) : ~r.isActive /\ ExpiredJs(r)

\* C3: a shorten without alias returns the code an earlier one returned for
\* the same URL, as long as that code's row is active and not expired.
C3_Idempotent ==
  \A p \in Procs :
    Done(p, "shorten") /\ procs[p].alias = NoStr /\ procs[p].status = "ok"
      => \A c \in procs[p].gSeen :
           (\E r \in RowOf(c) : r.longUrl = procs[p].url /\ r.isActive /\ NotExpiredSql(r))
             => procs[p].out = c

\* C4: resolve of a code whose row was already expired when it started
\* returns NotFound.
C4_ExpiredIsNotFound ==
  \A p \in Procs : Done(p, "resolve") /\ procs[p].gExpired => procs[p].status = "NotFound"

\* C5: no two rows of the store have the same short code.
C5_UniqueShortCode ==
  \A r1, r2 \in store : r1.shortCode = r2.shortCode => r1 = r2

\* a generated code collided with a row of the store and the insert was refused
C5_Witness ==
  \E p \in Procs :
    /\ Done(p, "shorten") /\ procs[p].alias = NoStr /\ procs[p].status = "AliasTaken"
    /\ \E r \in RowOf(procs[p].code) : r.longUrl # procs[p].url

\* C6: a resolve served from the cache returns what the store path would
\* have returned at that moment.
C6_CacheAgreesWithStore ==
  \A p \in Procs :
    Done(p, "resolve") /\ procs[p].gHit => procs[p].out = procs[p].gAns

\* C7: clicks of a row never decreases, it moves by one, and the step that
\* moves it sets lastAccessed to the time of the step.
C7_ClicksMonotone ==
  [][\A r \in store : \A r2 \in store' :
       r2.id = r.id
         => /\ r2.clicks >= r.clicks
            /\ r2.clicks # r.clicks => r2.clicks = r.clicks + 1 /\ r2.lastAccessed = now]_vars

\* a row was resolved after time had passed since its creation
C7_Witness == \E r \in store : r.clicks >= 1 /\ r.lastAccessed > r.createdAt

\* C8: every row that leaves the store is already deactivated.
C8_PurgeOnlyInactive ==
  [][\A r \in store : (\A r2 \in store' : r2.id # r.id) => ~r.isActive]_vars

\* C9: the sweep never ends with an error.
C9_SweepNeverFails == sweep.status # "error"

\* C10: a shorten or resolve that met an unavailable or failing cache ends as
\* the store decides: shorten returns the code of the row it created, resolve
\* returns the answer of the store path.
C10_CacheFailureNotFatal ==
  \A p \in Procs :
    procs[p].pc = "done" /\ procs[p].gNoCache
      => /\ procs[p].op = "shorten"
              => /\ procs[p].status = "ok" /\ procs[p].out = procs[p].code
                 /\ \E r \in RowOf(procs[p].code) : r.longUrl = procs[p].url
         /\ procs[p].op = "resolve" /\ ~procs[p].gHit
              => /\ procs[p].status = (IF procs[p].gAns = NoStr THEN "NotFound" ELSE "ok")
                 /\ procs[p].out = procs[p].gAns

\* a shorten and a resolve have both returned after a cache operation failed
C10_Witness ==
  /\ \E p \in Procs : Done(p, "shorten") /\ procs[p].gNoCache /\ procs[p].status = "ok"
  /\ \E p \in Procs : Done(p, "resolve") /\ procs[p].gNoCache /\ procs[p].status = "ok"

\* C11: a shorten without alias never ends with the uniqueness error; a
\* candidate code that is already in the store is replaced by a new one.
C11_GeneratedCodeRetried ==
  \A p \in Procs :
    Done(p, "shorten") /\ procs[p].alias = NoStr => procs[p].status # "AliasTaken"

\* C12: the candidate code shorten generates has the requested length and
\* only characters of the safe alphabet.
C12_CodeInSafeAlphabet ==
  \A p \in Procs :
    procs[p].pc = "s_create" /\ procs[p].alias = NoStr
      => /\ Len(procs[p].code) = CodeLength
         /\ Range(procs[p].code) \subseteq Range(SAFE_ALPHABET)

\* C13: a resolve of an empty code or of a code shorter than 3 ends at once
\* with InvalidShortCode: it never reaches the cache read or the store read,
\* detaches no click increment, and store and cache stay as they were.
C13_ShortCodeRejectedFirst ==
  [][\A p \in Procs :
       LET nx == procs'[p]
       IN  procs[p] # nx /\ Free(p) /\ nx.op = "resolve"
           /\ (nx.code = NoStr \/ Len(nx.code) < 3)
             => /\ nx.pc = "done" /\ nx.status = "InvalidShortCode"
                /\ ~nx.gHit /\ nx.out = NoStr
                /\ UNCHANGED <<store, cache, pending>>]_vars

\* a two-character code was rejected while the store and the cache held a
\* mapping
C13_Witness ==
  \E p \in Procs :
    /\ Done(p, "resolve") /\ procs[p].code = <<"a", "b">>
    /\ procs[p].status = "InvalidShortCode"
    /\ store # {} /\ \E c \in CacheKeys : cache[c] # NoEntry

ShortenFailures == {"InvalidUrl", "MaliciousUrl", "InvalidAlias", "ReservedAlias", "AliasTaken"}

\* C14: the step that ends a shorten with one of the five errors changes
\* neither store nor cache and is not preceded by a write of this call (a
\* call that has written is at the write-through and ends ok); the alias
\* format and reservation errors come from the first step, before any store
\* call.
C14_FailedShortenWritesNothing ==
  [][\A p \in Procs :
       LET pr == procs[p]
           nx == procs'[p]
       IN  pr # nx /\ nx.op = "shorten"
             => /\ nx.pc = "done" /\ nx.status \in ShortenFailures
                     => UNCHANGED <<store, cache>> /\ pr.pc # "s_set"
                /\ store' # store \/ cache' # cache
                     => nx.pc = "s_set" \/ (nx.pc = "done" /\ nx.status = "ok")
                /\ nx.pc = "done" /\ nx.status \in {"InvalidAlias", "ReservedAlias"} => Free(p)]_vars

\* shorten calls were refused for a reserved alias, and for an alias that a
\* concurrent call inserted first, with a row in the store
C14_Witness ==
  \E p \in Procs :
    /\ Done(p, "shorten") /\ store # {}
    /\ \/ procs[p].status = "ReservedAlias"
       \/ /\ procs[p].status = "AliasTaken" /\ procs[p].gSeen = {}
          /\ \E r \in RowOf(procs[p].alias) : r.longUrl # procs[p].url

\* C15: getStats changes neither store nor cache nor the pending click
\* write-backs; its query step returns the columns of the row with that
\* code as the store holds them at that step, whether the row is active,
\* deactivated or expired, and NotFound when the store has no such row.
C15_StatsReadsStoreOnly ==
  [][\A p \in Procs :
       LET pr == procs[p]
           nx == procs'[p]
       IN  pr # nx /\ nx.op = "stats"
             => /\ UNCHANGED <<store, cache, pending>>
                /\ pr.pc = "t_query"
                     => /\ nx.pc = "done"
                        /\ nx.status = (IF RowOf(pr.code) = {} THEN "NotFound" ELSE "ok")
                        /\ Cardinality(nx.stats) = Cardinality(RowOf(pr.code))
                        /\ \A r \in RowOf(pr.code) : \A st \in nx.stats :
                             /\ st.shortCode = r.shortCode /\ st.longUrl = r.longUrl
                             /\ st.clicks = r.clicks /\ st.lastAccessed = r.lastAccessed
                             /\ st.createdAt = r.createdAt /\ st.expiresAt = r.expiresAt
                             /\ st.isCustomAlias = r.isCustomAlias]_vars

\* getStats returned the snapshot of a row the sweep had deactivated
C15_Witness ==
  \E p \in Procs :
    /\ Done(p, "stats") /\ procs[p].status = "ok"
    /\ \E r \in RowOf(procs[p].code) : ~r.isActive /\ ExpiredJs(r)
    /\ \E st \in procs[p].stats : st.shortCode = procs[p].code

\* C16: the step that deactivates rows deactivates only active rows whose
\* expiresAt is set and in the past, and leaves no such row active; a sweep
\* run again on the store it leaves, at the same time, finds no row, reports
\* zero and changes nothing.
C16_SweepExactAndIdempotent ==
  [][(\E r \in store : \E r2 \in store' : r2.id = r.id /\ r.isActive /\ ~r2.isActive)
       => /\ \A r \in store : \A r2 \in store' :
               r2.id = r.id /\ r.isActive /\ ~r2.isActive
                 => r.expiresAt # NoTime /\ r.expiresAt < now
          /\ \A r2 \in store' :
               r2.expiresAt # NoTime /\ r2.expiresAt < now => ~r2.isActive
          /\ now' = now /\ SweepCount' = 0
          /\ {IF r \in deactivateExpiredUrls' THEN [r EXCEPT !.isActive = FALSE] ELSE r :
                r \in store'} = store']_vars

\* the sweep has deactivated an expired row and left active a row without
\* expiry or with its expiry still ahead
C16_Witness ==
  /\ \E r \in store : ~r.isActive /\ ExpiredJs(r)
  /\ \E r \in store : r.isActive /\ (r.expiresAt = NoTime \/ r.expiresAt >= now)
  /\ sweep.pc = "idle" /\ sweep.status = "ok"

\* C17: the step that reads a cached URL ends the resolve with that URL
\* while the click write-back it detached is still outstanding and the store
\* is untouched; the step that later completes the write-back, applied or
\* failed, changes no handler and no result.
C17_HitReturnsBeforeWriteBack ==
  [][/\ \A p \in Procs :
          LET pr == procs[p]
              nx == procs'[p]
          IN  pr.pc = "r_get" /\ nx # pr /\ nx.gNoCache = pr.gNoCache
              /\ cache[pr.code].url # NoStr
                => /\ nx.pc = "done" /\ nx.status = "ok" /\ nx.out = cache[pr.code].url
                   /\ pending'[pr.code] = pending[pr.code] + 1
                   /\ store' = store
     /\ (\E c \in CacheKeys : pending'[c] < pending[c]) => procs' = procs]_vars

\* a resolve answered from the cache stands as ok after its write-back has
\* failed: no write-back is outstanding and the live row has no click
C17_Witness ==
  \E p \in Procs :
    /\ Done(p, "resolve") /\ procs[p].gHit /\ procs[p].status = "ok"
    /\ procs[p].out # NoStr /\ pending[procs[p].code] = 0
    /\ \E r \in RowOf(procs[p].code) : r.clicks = 0 /\ r.isActive /\ r.expiresAt = NoTime

\* C18: the store read of a resolve that finds no row, a deactivated row or
\* a row whose expiresAt is in the past ends the call with NotFound, and
\* writes no cache entry and no click: store, cache and the pending
\* write-backs are unchanged.
C18_MissNotFound ==
  [][\A p \in Procs :
       LET pr == procs[p]
           nx == procs'[p]
       IN  pr.pc = "r_find" /\ nx # pr
           /\ \/ RowOf(pr.code) = {}
              \/ \E r \in RowOf(pr.code) :
                   ~r.isActive \/ (r.expiresAt # NoTime /\ r.expiresAt < now)
             => /\ nx.pc = "done" /\ nx.status = "NotFound" /\ nx.out = NoStr
                /\ UNCHANGED <<store, cache, pending>>]_vars

\* a resolve that missed the cache answered NotFound for a row that had
\* expired and was still marked active
C18_Witness ==
  \E p \in Procs :
    /\ Done(p, "resolve") /\ ~procs[p].gHit /\ procs[p].status = "NotFound"
    /\ \E r \in RowOf(procs[p].code) : r.isActive /\ ExpiredJs(r) /\ r.clicks = 0
    /\ cache[procs[p].code] = NoEntry

\* C19: the last step of a resolve that found a valid row in the store adds
\* exactly one click to that row and returns the URL (the step comes after
\* the read, and no other resolution takes part in it).
C19_MissCountsItsClick ==
  [][\A p \in Procs :
       LET pr == procs[p]
           nx == procs'[p]
       IN  pr.pc = "r_incr" /\ nx # pr
             => /\ nx.pc = "done" /\ nx.status = "ok" /\ nx.out = pr.url
                /\ \E r \in RowOf(pr.code) : \E r2 \in store' :
                     r2.id = r.id /\ r2.clicks = r.clicks + 1]_vars

\* C20: a shorten with an alias whose store steps find no row with that
\* code goes on to insert one row with the alias as short code, the
\* normalized URL and isCustomAlias set, leaves every other row as it was,
\* and returns the alias, whether or not the URL already has a live row.
C20_AliasCreatesOwnRow ==
  [][\A p \in Procs :
       LET pr == procs[p]
           nx == procs'[p]
       IN  pr.op = "shorten" /\ pr.alias # NoStr /\ nx # pr
             => /\ pr.pc = "s_findAlias" /\ RowOf(pr.alias) = {}
                     => nx.pc = "s_create" /\ nx.code = pr.alias
                /\ pr.pc = "s_create" /\ RowOf(pr.alias) = {}
                     => /\ store \subseteq store'
                        /\ Cardinality(store') = Cardinality(store) + 1
                        /\ \A r2 \in store' \ store :
                             /\ r2.shortCode = pr.alias /\ r2.longUrl = pr.url
                             /\ r2.isCustomAlias /\ r2.isActive /\ r2.clicks = 0
                        /\ \/ nx.pc = "s_set"
                           \/ nx.pc = "done" /\ nx.status = "ok" /\ nx.out = pr.alias
                /\ pr.pc = "s_set"
                     => /\ nx.pc = "done" /\ nx.status = "ok" /\ nx.out = pr.alias
                        /\ store' = store]_vars

\* shorten with an alias returned the alias for a URL that already had a
\* live row under a generated code, and that row is as it was created
C20_Witness ==
  \E p \in Procs :
    /\ Done(p, "shorten") /\ procs[p].alias # NoStr
    /\ procs[p].status = "ok" /\ procs[p].out = procs[p].alias
    /\ \E r \in RowOf(procs[p].alias) : \E old \in store :
         /\ r.isCustomAlias /\ r.longUrl = procs[p].url
         /\ old.longUrl = r.longUrl /\ old.id < r.id /\ ~old.isCustomAlias
         /\ old.isActive /\ NotExpiredSql(old) /\ old.clicks = 0

\* C21: of two shorten calls with the same alias that both passed the
\* existence check, one has created the row and returned the alias and the
\* other has failed with AliasTaken; the store holds one row for the alias,
\* with the winner's URL, and the cache entry of the alias, when there is
\* one, holds the winner's URL.
C21_AliasRaceOneWinner ==
  \A w, l \in Procs :
    (/\ w # l /\ Done(w, "shorten") /\ Done(l, "shorten")
     /\ procs[w].alias # NoStr /\ procs[l].alias = procs[w].alias
     /\ procs[w].code = procs[w].alias /\ procs[l].code = procs[l].alias)
      => /\ (procs[w].status = "ok") # (procs[l].status = "ok")
         /\ procs[w].status = "ok"
              => /\ procs[w].out = procs[w].alias
                 /\ procs[l].status = "AliasTaken" /\ procs[l].out = NoStr
                 /\ Cardinality(RowOf(procs[w].alias)) = 1
                 /\ \A r \in RowOf(procs[w].alias) :
                      r.longUrl = procs[w].url /\ r.isCustomAlias
                 /\ cache[procs[w].alias].url \in {NoStr, procs[w].url}

\* both calls are over, for different URLs, the second insert was refused
\* and the cache holds the winner's URL under the alias
C21_Witness ==
  \E w, l \in Procs :
    /\ w # l /\ Done(w, "shorten") /\ Done(l, "shorten")
    /\ procs[w].alias # NoStr /\ procs[l].alias = procs[w].alias
    /\ procs[l].code = procs[l].alias /\ procs[l].status = "AliasTaken"
    /\ procs[w].status = "ok" /\ procs[l].url # procs[w].url
    /\ cache[procs[w].alias].url = procs[w].url

\* C22: with the store available and the click updates run fairly, every
\* resolve that has returned the URL of a code is eventually followed by a
\* state in which the row of that code has a click.
C22_ResolveEventuallyCounted ==
  \A p \in Procs : \A c \in CacheKeys :
    (Done(p, "resolve") /\ procs[p].status = "ok" /\ procs[p].code = c)
      ~> (\E r \in store : r.shortCode = c /\ r.clicks >= 1)

\* C23: when two shorten calls without alias for the same URL, started
\* while no code had been handed out for it, have both ended after the
\* existence check, the store holds at least one row for the URL that is
\* active (or has only since run past its expiry), every call that returned
\* got a code whose row holds the URL, and the rows of the URL have distinct
\* codes.
C23_RaceLeavesRecord ==
  \A p, q \in Procs :
    (/\ p # q /\ Done(p, "shorten") /\ Done(q, "shorten")
     /\ procs[p].alias = NoStr /\ procs[q].alias = NoStr
     /\ procs[p].url = procs[q].url
     /\ procs[p].gSeen = {} /\ procs[q].gSeen = {}
     /\ procs[p].code # NoStr /\ procs[q].code # NoStr)
      => /\ \E r \in store : r.longUrl = procs[p].url /\ (r.isActive \/ ExpiredJs(r))
         /\ procs[p].status = "ok" => \E r \in RowOf(procs[p].out) : r.longUrl = procs[p].url
         /\ \A r1, r2 \in store :
              r1.longUrl = procs[p].url /\ r2.longUrl = procs[p].url /\ r1.id # r2.id
                => r1.shortCode # r2.shortCode

\* C24: a cache entry is never present at a time later than the expiresAt
\* of the row of its code, nor for a code whose row has been deactivated.
C24_CacheWithinValidity ==
  \A c \in CacheKeys :
    cache[c].url # NoStr
      => \A r \in RowOf(c) :
           /\ r.expiresAt # NoTime => now <= r.expiresAt
           /\ r.isActive

\* C25: the evictions a failed tick of the sweeper left undone are taken up
\* by a later tick: when a tick that follows a failed one goes on to evict
\* (Redis is ready), the keys it deletes include every cache key of a row
\* that is already deactivated.
C25_LaterTickCompletes ==
  [][sweep.status = "error" /\ sweep'.pc = "evict"
       => \A c \in CacheKeys :
            cache[c].url # NoStr /\ (\E r \in RowOf(c) : ~r.isActive)
              => c \in sweep'.todo]_vars

\* C26: two calls of the content-derived generator with the same URL and
\* the same length return the same code.
C26_DeriveDeterministic ==
  \A p, q \in Procs :
    /\ Done(p, "derive") /\ Done(q, "derive")
    /\ procs[p].url = procs[q].url /\ procs[p].length = procs[q].length
    => procs[p].out = procs[q].out

\* C27: the dedup step of a shorten without alias returns only the code of
\* a row that is active and not expired when it is read; when every row of
\* the URL is expired or inactive the call goes on to create, and its create
\* step adds one new row of the URL under a code no existing row has.
C27_DedupLiveElseNewRow ==
  [][\A p \in Procs :
       LET pr == procs[p]
           nx == procs'[p]
       IN  pr.op = "shorten" /\ pr.alias = NoStr /\ nx # pr
             => /\ pr.pc = "s_findUrl" /\ nx.pc = "done"
                     => \E r \in store :
                          /\ r.shortCode = nx.out /\ r.longUrl = pr.url
                          /\ r.isActive /\ NotExpiredSql(r)
                /\ ( /\ pr.pc = "s_findUrl"
                     /\ \A r \in store :
                          r.longUrl = pr.url => ~r.isActive \/ ~NotExpiredSql(r) )
                     => nx.pc = "s_create"
                /\ pr.pc = "s_create"
                     => /\ store \subseteq store'
                        /\ Cardinality(store' \ store) = 1
                        /\ \A r2 \in store' \ store :
                             /\ r2.longUrl = pr.url
                             /\ r2.shortCode \notin {r.shortCode : r \in store}]_vars

\* a step in which resolve counts an access of the code: the awaited
\* increment of a store-path resolve, or the detached one of a cache hit
CountsAccess(c) ==
  \/ pending'[c] < pending[c]
  \/ \E p \in Procs :
       procs[p].pc = "r_incr" /\ procs[p].code = c /\ procs'[p].pc = "done"

\* C28: under shorten, resolve, getStats and the deactivation sweep every
\* created row stays in the store with its shortCode, longUrl, createdAt,
\* expiresAt and isCustomAlias as created; a row changes only by a resolve
\* of its code, which moves clicks and lastAccessed of that row alone, or by
\* the sweep, which moves isActive alone (to false).
C28_CreatedFieldsFixed ==
  [][\A r \in store : \E r2 \in store' :
       /\ r2.id = r.id
       /\ r2.shortCode = r.shortCode /\ r2.longUrl = r.longUrl
       /\ r2.createdAt = r.createdAt /\ r2.expiresAt = r.expiresAt
       /\ r2.isCustomAlias = r.isCustomAlias
       /\ r2 # r
            => \/ /\ CountsAccess(r.shortCode)
                  /\ r2.clicks = r.clicks + 1 /\ r2.lastAccessed = now
                  /\ r2.isActive = r.isActive
                  /\ store \ {r} \subseteq store'
               \/ /\ procs' = procs /\ pending' = pending
                  /\ r.isActive /\ ~r2.isActive
                  /\ r2.clicks = r.clicks /\ r2.lastAccessed = r.lastAccessed]_vars

\* a row that resolve has counted and the sweep has then deactivated
C28_Witness ==
  \E r \in store :
    /\ r.clicks > 0 /\ r.lastAccessed # NoTime /\ ~r.isActive
    /\ r.expiresAt # NoTime /\ r.expiresAt > r.createdAt /\ r.expiresAt < now

\* C29: the step in which a shorten without alias returns an existing code
\* (the dedup hit) leaves the store, the id sequence and the cache as they
\* were, whatever expiresIn the call carried, and the code it returns is the
\* code of a row of that URL.
C29_DedupHitWritesNothing ==
  [][\A p \in Procs :
       LET pr == procs[p]
           nx == procs'[p]
       IN  /\ pr.op = "shorten" /\ pr.alias = NoStr
           /\ pr.pc = "s_findUrl" /\ nx.pc = "done"
           => /\ store' = store /\ nextId' = nextId /\ cache' = cache
              /\ nx.status = "ok"
              /\ \E r \in store' : r.shortCode = nx.out /\ r.longUrl = pr.url]_vars

\* a finished call that carried an expiresIn and returned the code of a row
\* created without expiry: the row is as created and the code is not cached
C29_Witness ==
  \E p \in Procs :
    /\ Done(p, "shorten") /\ procs[p].alias = NoStr /\ procs[p].status = "ok"
    /\ procs[p].expiresIn # 0 /\ procs[p].out \in procs[p].gSeen
    /\ cache[procs[p].out] = NoEntry
    /\ store = {[id |-> 1, longUrl |-> procs[p].url, shortCode |-> procs[p].out,
                 clicks |-> 0, createdAt |-> 0, expiresAt |-> NoTime, isActive |-> TRUE,
                 lastAccessed |-> NoTime, isCustomAlias |-> FALSE]}

\* C30: every cache entry belongs to a row of the store: a row with the
\* cached code exists and its longUrl is the cached url.
C30_CacheCoherent ==
  \A c \in CacheKeys :
    cache[c].url # NoStr => \E r \in RowOf(c) : r.longUrl = cache[c].url

====
